---- MODULE Spec2Model ----
(***************************************************************************)
(* VIESvalid: a form handler that normalises a VAT number, posts a SOAP    *)
(* request to the VIES service, parses the reply with regular expressions  *)
(* and answers with a JSON message or a PDF report.                        *)
(*                                                                         *)
(* Text is modelled as a sequence of characters, each character a string   *)
(* of length one ("a", "<", " ", "\n"); a character outside ASCII is       *)
(* written by its code point ("U+00DF" is the German sharp s).             *)
(***************************************************************************)
EXTENDS Integers, Sequences, FiniteSets, TLC

VARIABLES
    pc,               \* position of the running operation
    app,              \* the handler variant serving the request: "index" or "main"
    country_code,     \* form field country_code
    vat_number,       \* form field vat_number
    cleaned_vat,      \* clean_vat_number(vat_number)
    recleaned_vat,    \* clean_vat_number applied to its own result
    xml_text,         \* the text handed to parse_vies_response
    is_valid,         \* first component of the check's result
    message,          \* second component of the check's result
    last_request,     \* ViesVatChecker.last_request
    last_response,    \* ViesVatChecker.last_response
    upstream,         \* outcome of requests.post and raise_for_status
    report,           \* the report document, once generate_pdf_report has run
    company_name,     \* result of extract_company_name
    filename,         \* result of create_filename
    response,         \* the HTTP response of the handler
    xml_string,       \* format_xml: the text after whitespace normalisation
    lines,            \* format_xml: the lines still to be processed
    line,             \* format_xml: the current stripped line
    indent,           \* format_xml: the indentation level
    indented_line,    \* format_xml: the text still to be emitted for the line
    formatted_lines,  \* format_xml: the lines emitted so far
    instances,        \* the ViesVatChecker objects, by the request that made them
    tasks             \* concurrently served requests: each handler's locals

reqVars == <<app, country_code, vat_number, cleaned_vat, recleaned_vat>>
chkVars == <<xml_text, is_valid, message, last_request, last_response, upstream>>
outVars == <<company_name, filename, response, report>>
fmtVars == <<xml_string, lines, line, indent, indented_line, formatted_lines>>
srvVars == <<instances, tasks>>
vars == <<pc, reqVars, chkVars, outVars, fmtVars, srvVars>>

-----------------------------------------------------------------------------
(* Characters and strings                                                  *)

LowerAZ == <<"a","b","c","d","e","f","g","h","i","j","k","l","m",
             "n","o","p","q","r","s","t","u","v","w","x","y","z">>
UpperAZ == <<"A","B","C","D","E","F","G","H","I","J","K","L","M",
             "N","O","P","Q","R","S","T","U","V","W","X","Y","Z">>
Digits == <<"0","1","2","3","4","5","6","7","8","9">>

Range(s) == {s[i] : i \in 1..Len(s)}
IndexIn(s, c) == CHOOSE i \in 1..Len(s) : s[i] = c

LowerSet == Range(LowerAZ)
UpperSet == Range(UpperAZ)
DigitSet == Range(Digits)
IsLowerAZ(c) == c \in LowerSet
IsUpperAZ(c) == c \in UpperSet
IsDigit(c) == c \in DigitSet

\* Letters outside ASCII: sharp s, e acute, E acute, dotless i, l stroke, L stroke.
NonAsciiLetters == {"U+00DF", "U+00E9", "U+00C9", "U+0131", "U+0142", "U+0141"}
\* Python's \s on str: ASCII whitespace and Unicode spaces (no-break space).
Whitespace == {" ", "\n", "\t", "\r", "U+00A0"}

IsSpace(c) == c \in Whitespace
\* Python's \w on str: Unicode letters, digits and the underscore.
IsWord(c) == IsLowerAZ(c) \/ IsUpperAZ(c) \/ IsDigit(c) \/ c = "_" \/ c \in NonAsciiLetters

\* str.upper() of one character; it may yield two ("ß".upper() == "SS").
UpperChar(c) ==
    IF IsLowerAZ(c) THEN <<UpperAZ[IndexIn(LowerAZ, c)]>>
    ELSE IF c = "U+00DF" THEN <<"S", "S">>
    ELSE IF c = "U+00E9" THEN <<"U+00C9">>
    ELSE IF c = "U+0131" THEN <<"I">>
    ELSE IF c = "U+0142" THEN <<"U+0141">>
    ELSE <<c>>

\* str.lower() of one character.
LowerChar(c) ==
    IF IsUpperAZ(c) THEN LowerAZ[IndexIn(UpperAZ, c)]
    ELSE IF c = "U+00C9" THEN "U+00E9"
    ELSE IF c = "U+0141" THEN "U+0142"
    ELSE c

RECURSIVE str_upper(_)
str_upper(s) == IF s = <<>> THEN <<>> ELSE UpperChar(Head(s)) \o str_upper(Tail(s))

str_lower(s) == [i \in 1..Len(s) |-> LowerChar(s[i])]

RECURSIVE Concat(_)
Concat(ss) == IF ss = <<>> THEN <<>> ELSE Head(ss) \o Concat(Tail(ss))

\* All sequences over S of length at most n.
SeqUpTo(S, n) == UNION {[1..k -> S] : k \in 0..n}

-----------------------------------------------------------------------------
(* ViesVatChecker.clean_vat_number                                         *)

IsAZ09(c) == IsUpperAZ(c) \/ IsDigit(c)

\* A normaliser that keeps what str.isalnum() accepts instead of [A-Z0-9].
clean_vat_number_isalnum(v) == SelectSeq(str_upper(v), IsWord)

\* re.sub(r'[^A-Z0-9]', '', vat_number.upper())
clean_vat_number(v) == SelectSeq(str_upper(v), IsAZ09)

-----------------------------------------------------------------------------
(* Regular-expression matching on character sequences                      *)

\* Case folding of re.IGNORECASE (the dotless i folds to i).
FoldChar(c) == IF c = "U+0131" THEN "i" ELSE LowerChar(c)

\* The literal lit stands in s at position i (lit is lower case when fold).
LitAt(s, i, lit, fold) ==
    /\ i >= 1
    /\ i + Len(lit) - 1 <= Len(s)
    /\ \A j \in 1..Len(lit) :
           (IF fold THEN FoldChar(s[i + j - 1]) ELSE s[i + j - 1]) = lit[j]

Min(S) == CHOOSE x \in S : \A y \in S : x <= y

\* The position after the run of word characters (\w*) that starts at i.
WordRunEnd(s, i) ==
    Min({j \in i..(Len(s) + 1) : j = Len(s) + 1 \/ ~IsWord(s[j])})

\* \w*:?NAME> matched at position i: the position right after the match, or
\* 0 when there is none. The name and the prefix are word characters, so the
\* run of word characters from i either ends with NAME and is followed by
\* ">", or is the whole prefix and is followed by ":NAME>".
TagTailEnd(s, i, name, fold) ==
    LET w == WordRunEnd(s, i)
    IN  IF w - i >= Len(name) /\ LitAt(s, w - Len(name), name \o <<">">>, fold)
        THEN w + 1
        ELSE IF LitAt(s, w, <<":">> \o name \o <<">">>, fold)
        THEN w + Len(name) + 2
        ELSE 0

\* <\w*:?NAME> at position i: the position after the tag, or 0.
OpenTagEnd(s, i, name, fold) ==
    IF i <= Len(s) /\ s[i] = "<" THEN TagTailEnd(s, i + 1, name, fold) ELSE 0

\* </\w*:?NAME> at position i: the position after the tag, or 0.
CloseTagEnd(s, i, name, fold) ==
    IF LitAt(s, i, <<"<", "/">>, FALSE) THEN TagTailEnd(s, i + 2, name, fold) ELSE 0

L_valid == <<"v","a","l","i","d">>
L_name == <<"n","a","m","e">>
L_address == <<"a","d","d","r","e","s","s">>
L_true == <<"t","r","u","e">>
L_false == <<"f","a","l","s","e">>

\* re.search(r'<\w*:?valid>(true|false)</\w*:?valid>', s, re.IGNORECASE):
\* the matches as [start, group1]; re.search returns the leftmost one.
ValidMatches(s) ==
    {m \in [start : {i \in 1..Len(s) : s[i] = "<"}, group1 : {L_true, L_false}] :
        LET e == OpenTagEnd(s, m.start, L_valid, TRUE)
        IN  /\ e /= 0
            /\ LitAt(s, e, m.group1, TRUE)
            /\ CloseTagEnd(s, e + Len(m.group1), L_valid, TRUE) /= 0}

\* re.search(r'<\w*:?NAME>(.*?)</\w*:?NAME>', s, re.DOTALL): the leftmost
\* opening tag that has a closing tag after it, and the shortest text between
\* the two. The result is [found, group1].
ElementSearch(s, name) ==
    LET marks == {i \in 1..Len(s) : s[i] = "<"}
        opens == {i \in marks : OpenTagEnd(s, i, name, FALSE) /= 0}
        closes == {c \in marks : CloseTagEnd(s, c, name, FALSE) /= 0}
        starts == {i \in opens :
                      \E c \in closes : c >= OpenTagEnd(s, i, name, FALSE)}
    IN  IF starts = {} THEN [found |-> FALSE, group1 |-> <<>>]
        ELSE LET e == OpenTagEnd(s, Min(starts), name, FALSE)
                 c == Min({x \in closes : x >= e})
             IN  [found |-> TRUE, group1 |-> SubSeq(s, e, c - 1)]

\* str.strip()
LStrip(s) ==
    LET black == {i \in 1..Len(s) : ~IsSpace(s[i])}
    IN  IF black = {} THEN <<>> ELSE SubSeq(s, Min(black), Len(s))
RStrip(s) ==
    LET black == {i \in 1..Len(s) : ~IsSpace(s[i])}
    IN  IF black = {} THEN <<>>
        ELSE SubSeq(s, 1, CHOOSE i \in black : \A j \in black : j <= i)
Strip(s) == RStrip(LStrip(s))

\* "\n".join(details)
RECURSIVE JoinLines(_)
JoinLines(ls) ==
    IF ls = <<>> THEN <<>>
    ELSE IF Len(ls) = 1 THEN ls[1]
    ELSE ls[1] \o <<"\n">> \o JoinLines(Tail(ls))

-----------------------------------------------------------------------------
(* ViesVatChecker.parse_vies_response                                      *)

MsgActive == <<"V","A","T"," ","n","u","m","b","e","r"," ","i","s"," ",
               "a","c","t","i","v","e">>
MsgNotActive == <<"V","A","T"," ","n","u","m","b","e","r"," ","i","s"," ",
                  "n","o","t"," ","a","c","t","i","v","e">>
MsgUndetermined == <<"C","o","u","l","d"," ","n","o","t"," ","d","e","t","e","r",
                     "m","i","n","e"," ","V","A","T"," ","n","u","m","b","e","r",
                     " ","s","t","a","t","u","s">>
NamePrefix == <<"N","a","m","e",":"," ">>
AddressPrefix == <<"A","d","d","r","e","s","s",":"," ">>

\* Lines 68-81: the result once the validity element valid_match is found.
ParsedDetails(xml, valid_match) ==
    LET valid == str_lower(valid_match.group1) = L_true
        name_match == ElementSearch(xml, L_name)
        address_match == ElementSearch(xml, L_address)
        details ==
            <<IF valid THEN MsgActive ELSE MsgNotActive>>
            \o (IF name_match.found
                THEN <<NamePrefix \o Strip(name_match.group1)>> ELSE <<>>)
            \o (IF address_match.found
                THEN <<AddressPrefix \o Strip(address_match.group1)>> ELSE <<>>)
    IN  [is_valid |-> valid, message |-> JoinLines(details)]

LeftmostMatch(matches) ==
    CHOOSE m \in matches : \A o \in matches : m.start <= o.start

\* A parser that reports a reply without a validity element as "not active".
parse_vies_response_default_inactive(xml) ==
    IF ValidMatches(xml) = {}
    THEN [is_valid |-> FALSE, message |-> MsgNotActive]
    ELSE ParsedDetails(xml, LeftmostMatch(ValidMatches(xml)))

\* The pair (is_valid, message) parse_vies_response returns. Its except
\* clause returns a pair as well, so no exception leaves the function.
parse_vies_response(xml) ==
    IF ValidMatches(xml) = {}
    THEN [is_valid |-> FALSE, message |-> MsgUndetermined]
    ELSE ParsedDetails(xml, LeftmostMatch(ValidMatches(xml)))

-----------------------------------------------------------------------------
(* extract_company_name and create_filename                                *)

max_name_length == 30

L_unknown == <<"u","n","k","n","o","w","n">>
L_NameColon == <<"N","a","m","e",":">>
L_VIES == <<"V","I","E","S","_">>
L_pdf == <<".","p","d","f">>

\* str.split(sep) for a separator of one character.
RECURSIVE Split(_, _)
Split(s, sep) ==
    LET cuts == {i \in 1..Len(s) : s[i] = sep}
    IN  IF cuts = {} THEN <<s>>
        ELSE <<SubSeq(s, 1, Min(cuts) - 1)>>
             \o Split(SubSeq(s, Min(cuts) + 1, Len(s)), sep)

\* str.replace(old, ''): every occurrence of old removed, left to right.
RECURSIVE RemoveAll(_, _)
RemoveAll(s, old) ==
    IF Len(s) < Len(old) THEN s
    ELSE IF SubSeq(s, 1, Len(old)) = old
    THEN RemoveAll(SubSeq(s, Len(old) + 1, Len(s)), old)
    ELSE <<Head(s)>> \o RemoveAll(Tail(s), old)

startswith(s, p) == Len(s) >= Len(p) /\ SubSeq(s, 1, Len(p)) = p

\* [a-zA-Z0-9\s-] and [a-zA-Z0-9-]
IsNameCharOrSpace(c) == IsLowerAZ(c) \/ IsUpperAZ(c) \/ IsDigit(c) \/ IsSpace(c) \/ c = "-"
IsNameChar(c) == IsLowerAZ(c) \/ IsUpperAZ(c) \/ IsDigit(c) \/ c = "-"

\* Lines 168-170: the name taken from a line that starts with "Name:".
NameOfLine(l) ==
    LET stripped == Strip(RemoveAll(l, L_NameColon))
        kept == SelectSeq(stripped, IsNameCharOrSpace)
    IN  [i \in 1..Len(kept) |-> IF kept[i] = " " THEN "-" ELSE kept[i]]

\* The first line of the message that starts with "Name:" decides; the loop
\* breaks there.
FoundCompanyName(message_text) ==
    LET ls == Split(message_text, "\n")
        hits == {i \in 1..Len(ls) : startswith(ls[i], L_NameColon)}
    IN  IF hits = {} THEN L_unknown ELSE NameOfLine(ls[Min(hits)])

\* extract_company_name without the final company_name[:30].
extract_company_name_untruncated(message_text) == FoundCompanyName(message_text)

\* extract_company_name: return company_name[:30]
extract_company_name(message_text) ==
    LET found == FoundCompanyName(message_text)
    IN  SubSeq(found, 1, IF Len(found) < max_name_length THEN Len(found)
                         ELSE max_name_length)

IsAZ(c) == IsUpperAZ(c)

\* create_filename: f'VIES_{safe_country}_{safe_vat}_{safe_company}.pdf'
create_filename(country, vat, company) ==
    LET safe_country == SelectSeq(str_upper(country), IsAZ)
        safe_vat == SelectSeq(vat, IsAZ09)
        safe_company == SelectSeq(company, IsNameChar)
    IN  L_VIES \o safe_country \o <<"_">> \o safe_vat \o <<"_">>
        \o safe_company \o L_pdf

-----------------------------------------------------------------------------
(* ViesVatChecker.format_xml                                               *)

max_width == 80

Spaces(n) == [i \in 1..n |-> " "]

\* re.sub(r'\s+', ' ', s): every run of whitespace becomes one space.
CollapseWhitespace(s) ==
    LET First(i) == ~(IsSpace(s[i]) /\ i > 1 /\ IsSpace(s[i - 1]))
        at == SelectSeq([i \in 1..Len(s) |-> i], First)
        kept == [k \in 1..Len(at) |-> s[at[k]]]
    IN  [k \in 1..Len(kept) |-> IF IsSpace(kept[k]) THEN " " ELSE kept[k]]

\* re.sub(r'> <', '>\n<', s)
BreakBetweenTags(s) ==
    [i \in 1..Len(s) |->
        IF s[i] = " " /\ i > 1 /\ i < Len(s) /\ s[i - 1] = ">" /\ s[i + 1] = "<"
        THEN "\n" ELSE s[i]]

endswith(s, p) == Len(s) >= Len(p) /\ SubSeq(s, Len(s) - Len(p) + 1, Len(s)) = p

L_closing == <<"<", "/">>
L_selfclosing == <<"/", ">">>

\* indented_line.rfind(' ', 0, max_width) as a slice length: the number of
\* characters before the last space among the first max_width characters,
\* and max_width when there is no such space (rfind returned -1).
SplitPoint(il) ==
    LET found == {i \in 1..max_width : i <= Len(il) /\ il[i] = " "}
    IN  IF found = {} THEN max_width
        ELSE (CHOOSE i \in found : \A j \in found : j <= i) - 1

\* A wrap that cuts after the space it found instead of before it.
WrapRest_keep_space(il, level) ==
    Spaces(2 * (level + 1)) \o LStrip(SubSeq(il, SplitPoint(il) + 2, Len(il)))

\* Line 50: '  ' * (indent + 1) + indented_line[split_point:].lstrip()
WrapRest(il, level) ==
    Spaces(2 * (level + 1)) \o LStrip(SubSeq(il, SplitPoint(il) + 1, Len(il)))

-----------------------------------------------------------------------------
(* ViesVatChecker.check_vat (src/index.py) and the handler's decisions     *)

\* The f-string of lines 96-107 around {country_code} and {cleaned_vat}.
SoapHead ==
    <<"\n"," "," "," "," "," "," "," "," ","<","s","o","a","p","e","n","v",
      ":","E","n","v","e","l","o","p","e"," ","x","m","l","n","s",":","s",
      "o","a","p","e","n","v","=","\"","h","t","t","p",":","/","/","s","c",
      "h","e","m","a","s",".","x","m","l","s","o","a","p",".","o","r","g",
      "/","s","o","a","p","/","e","n","v","e","l","o","p","e","/","\"","\n",
      " "," "," "," "," "," "," "," "," "," "," "," "," "," "," "," "," ",
      " "," "," "," "," "," "," "," ","x","m","l","n","s",":","u","r","n",
      "=","\"","u","r","n",":","e","c",".","e","u","r","o","p","a",".","e",
      "u",":","t","a","x","u","d",":","v","i","e","s",":","s","e","r","v",
      "i","c","e","s",":","c","h","e","c","k","V","a","t",":","t","y","p",
      "e","s","\"",">","\n"," "," "," "," "," "," "," "," "," "," "," "," ",
      "<","s","o","a","p","e","n","v",":","H","e","a","d","e","r","/",">",
      "\n"," "," "," "," "," "," "," "," "," "," "," "," ","<","s","o","a",
      "p","e","n","v",":","B","o","d","y",">","\n"," "," "," "," "," "," ",
      " "," "," "," "," "," "," "," "," "," ","<","u","r","n",":","c","h",
      "e","c","k","V","a","t",">","\n"," "," "," "," "," "," "," "," "," ",
      " "," "," "," "," "," "," "," "," "," "," ","<","u","r","n",":","c",
      "o","u","n","t","r","y","C","o","d","e",">">>
SoapMiddle ==
    <<"<","/","u","r","n",":","c","o","u","n","t","r","y","C","o","d","e",
      ">","\n"," "," "," "," "," "," "," "," "," "," "," "," "," "," "," ",
      " "," "," "," "," ","<","u","r","n",":","v","a","t","N","u","m","b",
      "e","r",">">>
SoapTail ==
    <<"<","/","u","r","n",":","v","a","t","N","u","m","b","e","r",">","\n",
      " "," "," "," "," "," "," "," "," "," "," "," "," "," "," "," ","<",
      "/","u","r","n",":","c","h","e","c","k","V","a","t",">","\n"," "," ",
      " "," "," "," "," "," "," "," "," "," ","<","/","s","o","a","p","e",
      "n","v",":","B","o","d","y",">","\n"," "," "," "," "," "," "," "," ",
      "<","/","s","o","a","p","e","n","v",":","E","n","v","e","l","o","p",
      "e",">","\n"," "," "," "," "," "," "," "," ">>

soap_request(country, cleaned) ==
    SoapHead \o country \o SoapMiddle \o cleaned \o SoapTail

MsgConnectionError ==
    <<"A","P","I"," ","c","o","n","n","e","c","t","i","o","n"," ","e","r",
      "r","o","r",":"," ">>
MsgPdfFailed ==
    <<"V","A","T"," ","n","u","m","b","e","r"," ","i","s"," ","v","a","l",
      "i","d",","," ","b","u","t"," ","c","o","u","l","d"," ","n","o","t",
      " ","g","e","n","e","r","a","t","e"," ","P","D","F"," ","r","e","p",
      "o","r","t",".">>
MsgUnexpected ==
    <<"A","n"," ","e","r","r","o","r"," ","o","c","c","u","r","r","e","d",
      " ","w","h","i","l","e"," ","v","e","r","i","f","y","i","n","g"," ",
      "t","h","e"," ","V","A","T"," ","n","u","m","b","e","r",".">>

\* check_vat without its except clause: a transport failure leaves it as an
\* exception.
check_vat_reraise(country, vat, outcome) ==
    IF outcome.kind = "error"
    THEN [raised |-> TRUE, is_valid |-> FALSE, message |-> <<>>,
          stored |-> FALSE, request |-> <<>>]
    ELSE [raised |-> FALSE,
          is_valid |-> parse_vies_response(outcome.text).is_valid,
          message |-> parse_vies_response(outcome.text).message,
          stored |-> TRUE,
          request |-> soap_request(country, clean_vat_number(vat))]

\* check_vat for one outcome of the outbound call: the reply text, or the
\* RequestException of a failed connection, a timeout or a non-2xx status.
\* raised: an exception leaves check_vat; stored: last_request and
\* last_response were assigned (lines 112-113).
check_vat(country, vat, outcome) ==
    IF outcome.kind = "error"
    THEN [raised |-> FALSE, is_valid |-> FALSE,
          message |-> MsgConnectionError \o outcome.cause,
          stored |-> FALSE, request |-> <<>>]
    ELSE [raised |-> FALSE,
          is_valid |-> parse_vies_response(outcome.text).is_valid,
          message |-> parse_vies_response(outcome.text).message,
          stored |-> TRUE,
          request |-> soap_request(country, clean_vat_number(vat))]

\* A handler that renders the report whatever the result of the check.
RendersReport_always(valid) == TRUE

\* Lines 340-342: the handler goes on to the report only for a valid result.
RendersReport(valid) == valid

JsonResponse(status_code, content) ==
    [status |-> status_code, media_type |-> "application/json", content |-> content]

\* Lines 365-372: the PDF response with its Content-Disposition file name.
PdfResponse(pdf_content, name) ==
    [status |-> 200, media_type |-> "application/pdf",
     content |-> pdf_content, filename |-> name]

-----------------------------------------------------------------------------
(* ViesVatChecker.check_vat and generate_pdf_report of src/vies_checker.py *)

MainMsgActive ==
    <<"N","u","m","e","r"," ","V","A","T"," ","j","e","s","t"," ","a","k",
      "t","y","w","n","y">>
MainMsgInactive ==
    <<"N","u","m","e","r"," ","V","A","T"," ","j","e","s","t"," ","n","i",
      "e","a","k","t","y","w","n","y">>
MainMsgUnverified ==
    <<"N","i","e"," ","m","o","U+017C","n","a"," ","z","w","e","r","y","f",
      "i","k","o","w","a","U+0107"," ","n","u","m","e","r","u"," ","V","A",
      "T">>
MainMsgConnectionError ==
    <<"B","U+0142","U+0105","d"," ","p","o","U+0142","U+0105","c","z","e",
      "n","i","a"," ","z"," ","A","P","I",":"," ">>
L_valid_true ==
    <<"v","a","l","i","d",">","t","r","u","e","<","/","v","a","l","i","d">>
L_valid_false ==
    <<"v","a","l","i","d",">","f","a","l","s","e","<","/","v","a","l","i",
      "d">>
L_vat_check ==
    <<"v","a","t","_","c","h","e","c","k","_">>

\* sub in text
Contains(text, sub) == \E i \in 1..Len(text) : LitAt(text, i, sub, FALSE)

main_check_vat(outcome) ==
    IF outcome.kind = "error"
    THEN [is_valid |-> FALSE, message |-> MainMsgConnectionError \o outcome.cause]
    ELSE IF Contains(outcome.text, L_valid_true)
    THEN [is_valid |-> TRUE, message |-> MainMsgActive]
    ELSE IF Contains(outcome.text, L_valid_false)
    THEN [is_valid |-> FALSE, message |-> MainMsgInactive]
    ELSE [is_valid |-> FALSE, message |-> MainMsgUnverified]

\* f'vat_check_{country_code}_{vat_number}_{timestamp}.pdf'
main_report_filename(country, vat, stamp) ==
    L_vat_check \o country \o <<"_">> \o vat \o <<"_">> \o stamp \o L_pdf

-----------------------------------------------------------------------------
(* Idle values of the variables an operation does not use                  *)

Unset == [set |-> FALSE, text |-> <<>>]
NoCall == [kind |-> "none"]
NoResponse == [status |-> 0, media_type |-> "none"]
NoReport == [state |-> "none"]

ReqIdle ==
    /\ app = "index" /\ country_code = <<>> /\ vat_number = <<>>
    /\ cleaned_vat = <<>> /\ recleaned_vat = <<>>
ChkIdle ==
    /\ xml_text = <<>> /\ is_valid = FALSE /\ message = <<>>
    /\ last_request = Unset /\ last_response = Unset /\ upstream = NoCall
OutIdle ==
    /\ company_name = <<>> /\ filename = <<>>
    /\ response = NoResponse /\ report = NoReport
FmtIdle ==
    /\ xml_string = <<>> /\ lines = <<>> /\ line = <<>> /\ indent = 0
    /\ indented_line = <<>> /\ formatted_lines = <<>>
SrvIdle ==
    /\ instances = <<>> /\ tasks = <<>>

-----------------------------------------------------------------------------
(* The parser on its own: every reply made of up to MaxParts fragments     *)

MaxParts == 3
X_ValidTrue == \* <valid>true</valid>
    <<"<","v","a","l","i","d",">","t","r","u","e","<","/","v","a","l","i","d",">">>
X_ValidFalseNs == \* <ns2:valid>false</ns2:valid>
    <<"<","n","s","2",":","v","a","l","i","d",">","f","a","l","s","e","<","/","n","s","2",":","v","a","l","i","d",">">>
X_ValidUpper == \* <VALID>True</valid>
    <<"<","V","A","L","I","D",">","T","r","u","e","<","/","v","a","l","i","d",">">>
X_ValidMaybe == \* <valid>maybe</valid>
    <<"<","v","a","l","i","d",">","m","a","y","b","e","<","/","v","a","l","i","d",">">>
X_ValidPadded == \* <valid> true </valid>
    <<"<","v","a","l","i","d",">"," ","t","r","u","e"," ","<","/","v","a","l","i","d",">">>
X_NameEmpty == \* <name></name>
    <<"<","n","a","m","e",">","<","/","n","a","m","e",">">>
X_NameAcme == \* <ns2:name> ACME BV\n</ns2:name>
    <<"<","n","s","2",":","n","a","m","e",">"," ","A","C","M","E"," ","B","V","\n","<","/","n","s","2",":","n","a","m","e",">">>
X_AddressEmpty == \* <address></address>
    <<"<","a","d","d","r","e","s","s",">","<","/","a","d","d","r","e","s","s",">">>
X_AddressMain == \* <ns2:address>Main St 1</ns2:address>
    <<"<","n","s","2",":","a","d","d","r","e","s","s",">","M","a","i","n"," ","S","t"," ","1","<","/","n","s","2",":","a","d","d","r","e","s","s",">">>
X_Blank == \* \n  
    <<"\n"," "," ">>
X_Fault == \* <faultstring>INVALID_INPUT</faultstring>
    <<"<","f","a","u","l","t","s","t","r","i","n","g",">","I","N","V","A","L","I","D","_","I","N","P","U","T","<","/","f","a","u","l","t","s","t","r","i","n","g",">">>
ReplyParts == {X_ValidTrue,
               X_ValidFalseNs,
               X_ValidUpper,
               X_ValidMaybe,
               X_ValidPadded,
               X_NameEmpty,
               X_NameAcme,
               X_AddressEmpty,
               X_AddressMain,
               X_Blank,
               X_Fault}

ParseInit ==
    /\ pc = "input"
    /\ xml_text \in {Concat(ps) : ps \in SeqUpTo(ReplyParts, MaxParts)}
    /\ is_valid = FALSE /\ message = <<>>
    /\ last_request = Unset /\ last_response = Unset /\ upstream = NoCall
    /\ ReqIdle /\ OutIdle /\ FmtIdle
    /\ SrvIdle

Parse ==
    /\ pc = "input"
    /\ LET result == parse_vies_response(xml_text)
       IN  is_valid' = result.is_valid /\ message' = result.message
    /\ pc' = "parsed"
    /\ UNCHANGED <<reqVars, xml_text, last_request, last_response, upstream, outVars, fmtVars>>
    /\ UNCHANGED srvVars

ParseNext == Parse
SpecParse == ParseInit /\ [][ParseNext]_vars

\* The tag name n (the text between "<" or "</" and ">") is "valid" with an
\* optional namespace prefix, in any case.
IsValidTagName(n) ==
    /\ Len(n) >= Len(L_valid)
    /\ LET pre == SubSeq(n, 1, Len(n) - Len(L_valid))
           loc == SubSeq(n, Len(n) - Len(L_valid) + 1, Len(n))
       IN  /\ [i \in 1..Len(loc) |-> FoldChar(loc[i])] = L_valid
           /\ \/ \A i \in 1..Len(pre) : IsWord(pre[i])
              \/ /\ pre /= <<>>
                 /\ pre[Len(pre)] = ":"
                 /\ \A i \in 1..(Len(pre) - 1) : IsWord(pre[i])

\* s holds a valid element whose text is true or false (in any case).
HasValidityIndicator(s) ==
    \E a \in 1..Len(s) : s[a] = "<" /\
    \E b \in (a + 1)..Len(s) : s[b] = ">" /\ IsValidTagName(SubSeq(s, a + 1, b - 1)) /\
    \E t \in {L_true, L_false} :
        LET c == b + Len(t) + 1
        IN  /\ c + 1 <= Len(s)
            /\ [i \in 1..Len(t) |-> FoldChar(s[b + i])] = t
            /\ s[c] = "<" /\ s[c + 1] = "/"
            /\ \E d \in (c + 2)..Len(s) :
                   s[d] = ">" /\ IsValidTagName(SubSeq(s, c + 2, d - 1))

StartsWith(s, p) == Len(s) >= Len(p) /\ SubSeq(s, 1, Len(p)) = p

\* C5: a reply in which no validity indicator can be located is parsed to
\* is_valid = false with the message "Could not determine VAT number
\* status", and every reply is parsed to a pair (nothing is raised).
C5_UndeterminedWhenNoIndicator ==
    pc = "parsed" =>
        /\ ~HasValidityIndicator(xml_text) =>
               (is_valid = FALSE /\ message = MsgUndetermined)
        /\ is_valid \in BOOLEAN
        /\ \/ message = MsgUndetermined
           \/ StartsWith(message, MsgActive)
           \/ StartsWith(message, MsgNotActive)

\* A reply whose valid element reads "maybe", next to a name element, was
\* parsed as undetermined.
C5_Witness ==
    /\ pc = "parsed"
    /\ xml_text = X_ValidMaybe \o X_NameAcme
    /\ is_valid = FALSE
    /\ message = MsgUndetermined

\* The message the specification describes: the status line, then the Name
\* and Address lines of the elements whose trimmed text is not empty.
DescribedMessage(xml) ==
    LET name_match == ElementSearch(xml, L_name)
        address_match == ElementSearch(xml, L_address)
    IN  JoinLines(
            <<IF parse_vies_response(xml).is_valid THEN MsgActive ELSE MsgNotActive>>
            \o (IF name_match.found /\ Strip(name_match.group1) /= <<>>
                THEN <<NamePrefix \o Strip(name_match.group1)>> ELSE <<>>)
            \o (IF address_match.found /\ Strip(address_match.group1) /= <<>>
                THEN <<AddressPrefix \o Strip(address_match.group1)>> ELSE <<>>))

\* C6: the message is the status line followed by a Name line only when the
\* name element's trimmed text is not empty, and an Address line only when
\* the address element's trimmed text is not empty.
C6_DetailLinesOnlyWhenNonEmpty ==
    (pc = "parsed" /\ HasValidityIndicator(xml_text)) =>
        message = DescribedMessage(xml_text)

-----------------------------------------------------------------------------
(* The filename derivation on its own: messages whose Name line is made of *)
(* up to MaxChunks chunks                                                  *)

MaxChunks == 3
N_Test == <<"T","e","s","t">>
N_Sp == <<"S","p",".">>
N_zoo == <<"z","-","o",".","o",".">>
N_Long == <<"A","B","C","D","E","F","G","H","I","J","0","1","2","3","4","5","6","7","8","9">>
NameChunks == {<<" ">>, <<"\t">>, N_Test, N_Sp, N_zoo, N_Long, <<"U+0142", "_">>, L_NameColon}

M_Address == <<"A","d","d","r","e","s","s",":"," ","M","a","i","n"," ","S","t"," ","1">>
M_Indented == <<" ","N","a","m","e",":"," ","I","n","d","e","n","t","e","d">>
M_First == <<"N","a","m","e",":"," ","F","i","r","s","t">>

\* The lines after the status line: no Name line, one Name line made of
\* chunks, a line that holds "Name:" but does not start with it, two Name lines.
DetailLines ==
    {<<>>, <<M_Address>>, <<M_Indented>>, <<M_Indented, M_Address>>}
    \cup {<<L_NameColon \o Concat(cs)>> : cs \in SeqUpTo(NameChunks, MaxChunks)}
    \cup {<<M_First, L_NameColon \o Concat(cs), M_Address>> :
              cs \in SeqUpTo(NameChunks, 1)}

CountryCodes == {<<"P","L">>, <<"p","l">>, <<"D","_","E">>}
VatNumbers == {<<"1","2","3","4","5","6","7","8","9","0">>,
               <<"1","2","a","b","-","3","4">>}

NameInit ==
    /\ pc = "input"
    /\ message \in {JoinLines(<<MsgActive>> \o ds) : ds \in DetailLines}
    /\ country_code \in CountryCodes
    /\ vat_number \in VatNumbers
    /\ app = "index" /\ cleaned_vat = <<>> /\ recleaned_vat = <<>>
    /\ xml_text = <<>> /\ is_valid = TRUE
    /\ last_request = Unset /\ last_response = Unset /\ upstream = NoCall
    /\ OutIdle /\ FmtIdle
    /\ SrvIdle

ExtractCompanyName ==
    /\ pc = "input"
    /\ company_name' = extract_company_name(message)
    /\ pc' = "extracted"
    /\ UNCHANGED <<reqVars, chkVars, filename, response, report, fmtVars>>
    /\ UNCHANGED srvVars

CreateFilename ==
    /\ pc = "extracted"
    /\ filename' = create_filename(country_code, vat_number, company_name)
    /\ pc' = "named"
    /\ UNCHANGED <<reqVars, chkVars, company_name, response, report, fmtVars>>
    /\ UNCHANGED srvVars

NameNext == ExtractCompanyName \/ CreateFilename
SpecName == NameInit /\ [][NameNext]_vars

\* The name component of VIES_<COUNTRY>_<VAT>_<NAME>.pdf: the text between
\* the third underscore and the extension.
NameComponent(f) ==
    LET us == {i \in 1..Len(f) : f[i] = "_"}
        third == CHOOSE i \in us : Cardinality({j \in us : j < i}) = 2
    IN  SubSeq(f, third + 1, Len(f) - Len(L_pdf))

\* Some line of the message starts with "Name:".
HasNameLine(m) ==
    \/ LitAt(m, 1, L_NameColon, FALSE)
    \/ \E i \in 1..Len(m) : m[i] = "\n" /\ LitAt(m, i + 1, L_NameColon, FALSE)

\* C7: the name component of the file name holds only characters of
\* [A-Za-z0-9-], is at most 30 characters long, and is "unknown" when no
\* line of the message starts with "Name:".
C7_FilenameNameComponent ==
    pc = "named" =>
        /\ Cardinality({i \in 1..Len(filename) : filename[i] = "_"}) = 3
        /\ startswith(filename, L_VIES)
        /\ SubSeq(filename, Len(filename) - Len(L_pdf) + 1, Len(filename)) = L_pdf
        /\ LET n == NameComponent(filename)
           IN  /\ \A i \in 1..Len(n) :
                      n[i] \in LowerSet \cup UpperSet \cup DigitSet \cup {"-"}
               /\ Len(n) <= max_name_length
               /\ ~HasNameLine(message) => n = L_unknown

\* A name longer than 30 characters with a tab inside was cut to 30 and the
\* tab then removed from the file name.
C7_Witness ==
    /\ pc = "named"
    /\ message = JoinLines(<<MsgActive, L_NameColon \o N_Long \o <<"\t">> \o N_Long>>)
    /\ Len(company_name) = max_name_length
    /\ NameComponent(filename) = N_Long \o SubSeq(N_Long, 1, 9)

-----------------------------------------------------------------------------
(* format_xml step by step: documents of up to MaxItems items separated by *)
(* one space, and at most MaxEmitted emitted lines                         *)

MaxItems == 3
MaxEmitted == 12

Rep(c, n) == [i \in 1..n |-> c]
I_open == <<"<","r",">">>
I_close == <<"<","/","r",">">>
I_leaf == <<"<","a",">","x","<","/","a",">">>
I_empty == <<"<","e","/",">">>
I_pair == <<"<","b",">","<","c","/",">","<","/","b",">">>
I_gap == <<"\n", " ", "\t">>
\* An opening tag of two attributes, longer than max_width, with spaces.
I_longtag ==
    <<"<","t">> \o <<" ","k","=","\"">> \o Rep("v", max_width \div 2) \o <<"\"">>
    \o <<" ","l","=","\"">> \o Rep("w", max_width \div 2) \o <<"\"",">">>
\* An element whose text is one token longer than max_width.
I_longtoken ==
    <<"<","d",">">> \o Rep("x", max_width + 10) \o <<"<","/","d",">">>
\* An element whose text is many short words, longer than twice max_width.
I_words ==
    <<"<","p",">">> \o Concat([i \in 1..(max_width \div 4) |-> <<"l","o","r","e","m"," ","i","p","s"," ">>])
    \o <<"<","/","p",">">>
Items == {I_open, I_close, I_leaf, I_empty, I_pair, I_gap, I_longtag, I_longtoken, I_words}

RECURSIVE JoinSpace(_)
JoinSpace(items) ==
    IF items = <<>> THEN <<>>
    ELSE IF Len(items) = 1 THEN items[1]
    ELSE items[1] \o <<" ">> \o JoinSpace(Tail(items))

FmtInit ==
    /\ pc = "start"
    /\ xml_string \in {JoinSpace(items) : items \in SeqUpTo(Items, MaxItems)}
    /\ lines = <<>> /\ line = <<>> /\ indent = 0
    /\ indented_line = <<>> /\ formatted_lines = <<>>
    /\ ReqIdle /\ ChkIdle /\ OutIdle
    /\ SrvIdle

\* Lines 26-32: normalise the whitespace, split into lines.
FmtPrepare ==
    /\ pc = "start"
    /\ xml_string' = BreakBetweenTags(CollapseWhitespace(xml_string))
    /\ lines' = Split(xml_string', "\n")
    /\ formatted_lines' = <<>>
    /\ indent' = 0
    /\ pc' = "loop"
    /\ UNCHANGED <<reqVars, chkVars, outVars, line, indented_line>>
    /\ UNCHANGED srvVars

\* Lines 34-42: take the next line; skip it when blank, else fix its
\* indentation and build the indented line.
FmtTakeLine ==
    /\ pc = "loop"
    /\ lines /= <<>>
    /\ line' = Strip(Head(lines))
    /\ lines' = Tail(lines)
    /\ IF line' = <<>>
       THEN UNCHANGED <<pc, indent, indented_line>>
       ELSE /\ indent' = IF startswith(line', L_closing)
                         THEN (IF indent - 1 > 0 THEN indent - 1 ELSE 0)
                         ELSE indent
            /\ indented_line' = Spaces(2 * indent') \o line'
            /\ pc' = "wrap"
    /\ UNCHANGED <<reqVars, chkVars, outVars, xml_string, formatted_lines>>
    /\ UNCHANGED srvVars

\* Lines 44-50: one iteration of the wrapping loop.
FmtWrap ==
    /\ pc = "wrap"
    /\ Len(indented_line) > max_width
    /\ Len(formatted_lines) < MaxEmitted
    /\ formatted_lines' = Append(formatted_lines, SubSeq(indented_line, 1, SplitPoint(indented_line)))
    /\ indented_line' = WrapRest(indented_line, indent)
    /\ UNCHANGED <<pc, reqVars, chkVars, outVars, xml_string, lines, line, indent>>
    /\ UNCHANGED srvVars

\* Lines 52-55: emit the rest of the line, step the indentation.
FmtEmit ==
    /\ pc = "wrap"
    /\ Len(indented_line) <= max_width
    /\ formatted_lines' = Append(formatted_lines, indented_line)
    /\ indent' = IF ~startswith(line, L_closing) /\ ~endswith(line, L_selfclosing)
                 THEN indent + 1 ELSE indent
    /\ pc' = "loop"
    /\ UNCHANGED <<reqVars, chkVars, outVars, xml_string, lines, line, indented_line>>
    /\ UNCHANGED srvVars

\* Line 57: return formatted_lines.
FmtReturn ==
    /\ pc = "loop"
    /\ lines = <<>>
    /\ pc' = "done"
    /\ UNCHANGED <<reqVars, chkVars, outVars, fmtVars>>
    /\ UNCHANGED srvVars

FmtNext == FmtPrepare \/ FmtTakeLine \/ FmtWrap \/ FmtEmit \/ FmtReturn
SpecFmt == FmtInit /\ [][FmtNext]_vars

\* The lines format_xml works through, and the number of the current one.
AllLines == Split(xml_string, "\n")
CurrentLineNo == Len(AllLines) - Len(lines)

\* Elements opened minus elements closed in the text t: an opening tag is a
\* "<" not followed by "/" whose ">" is not preceded by "/".
TagDelta(t) ==
    LET closers == {i \in 1..(Len(t) - 1) : t[i] = "<" /\ t[i + 1] = "/"}
        openers == {i \in 1..(Len(t) - 1) :
                       /\ t[i] = "<" /\ t[i + 1] /= "/"
                       /\ \E g \in (i + 1)..Len(t) :
                              /\ t[g] = ">" /\ t[g - 1] /= "/"
                              /\ \A h \in (i + 1)..(g - 1) : t[h] /= ">"}
    IN  Cardinality(openers) - Cardinality(closers)

\* The number of elements open before line n.
RECURSIVE OpenBefore(_)
OpenBefore(n) == IF n <= 1 THEN 0 ELSE OpenBefore(n - 1) + TagDelta(AllLines[n - 1])

IsClosingLine(n) == startswith(Strip(AllLines[n]), L_closing)

\* The nesting level line n belongs to: the elements open before it, less
\* the one a closing tag closes.
NestingLevel(n) == OpenBefore(n) - (IF IsClosingLine(n) THEN 1 ELSE 0)

\* C8: the indentation level at which a line is emitted (two spaces per
\* level) is its nesting level: the number of elements open when it is
\* emitted, a closing tag at the level of its opening tag; stated for
\* documents that close no element they did not open.
C8_IndentIsNestingLevel ==
    (/\ pc = "wrap"
     /\ \A k \in 1..CurrentLineNo : NestingLevel(k) >= 0) =>
        indent = NestingLevel(CurrentLineNo)

NonWhitespace(s) == SelectSeq(s, LAMBDA c : ~IsSpace(c))

\* Every emitted line is at most max_width characters long.
LinesWithinWidth ==
    \A i \in 1..Len(formatted_lines) : Len(formatted_lines[i]) <= max_width

\* The non-whitespace characters emitted, still to be emitted for the current
\* line, and of the lines to come, are those of the text, in order.
NonWhitespaceKept ==
    pc \in {"loop", "wrap", "done"} =>
        NonWhitespace(Concat(formatted_lines))
        \o (IF pc = "wrap" THEN NonWhitespace(indented_line) ELSE <<>>)
        \o NonWhitespace(Concat(lines))
        = NonWhitespace(xml_string)

\* One wrap emits the text before the last space among the first max_width
\* characters, or the first max_width characters when they hold no space.
BrokenAtNearestSpace ==
    LET piece == formatted_lines'[Len(formatted_lines')]
        n == Len(piece)
    IN  /\ Len(formatted_lines') = Len(formatted_lines) + 1
        /\ piece = SubSeq(indented_line, 1, n)
        /\ \/ /\ n < max_width
              /\ indented_line[n + 1] = " "
              /\ \A j \in (n + 2)..max_width : indented_line[j] /= " "
           \/ /\ n = max_width
              /\ \A j \in 1..max_width : indented_line[j] /= " "
        /\ NonWhitespace(piece) \o NonWhitespace(indented_line')
           = NonWhitespace(indented_line)

\* C9: every line format_xml emits is at most 80 characters long; a longer
\* line is broken at the last space among its first 80 characters, or after
\* 80 characters when there is none, and no non-whitespace character of the
\* text is dropped or duplicated.
C9_WrappedWithinWidth ==
    /\ [](LinesWithinWidth /\ NonWhitespaceKept)
    /\ [][FmtWrap => BrokenAtNearestSpace]_vars

\* A tag of 93 characters at indentation 0 was returned as two lines, broken
\* at the space between its attributes.
C9_Witness ==
    /\ pc = "done"
    /\ xml_string = I_longtag
    /\ Len(formatted_lines) = 2
    /\ formatted_lines[1] \o <<" ">> \o LStrip(formatted_lines[2]) = I_longtag
    /\ formatted_lines[2] = Spaces(2) \o LStrip(formatted_lines[2])

\* C10: every iteration of the wrapping loop strictly shortens the text that
\* remains to be emitted for the line (so the loop, and format_xml, ends).
C10_WrapShortensRemainder ==
    [][FmtWrap => Len(indented_line') < Len(indented_line)]_vars

-----------------------------------------------------------------------------
(* The normaliser on its own: every input up to MaxVatLen characters       *)

MaxVatLen == 3
VatChars == {"a", "z", "B", "7", "-", " ", ".", "U+00DF", "U+00E9", "U+0131"}

NormInit ==
    /\ pc = "input"
    /\ vat_number \in SeqUpTo(VatChars, MaxVatLen)
    /\ app = "index" /\ country_code = <<>>
    /\ cleaned_vat = <<>> /\ recleaned_vat = <<>>
    /\ ChkIdle /\ OutIdle /\ FmtIdle
    /\ SrvIdle

Normalize ==
    /\ pc = "input"
    /\ cleaned_vat' = clean_vat_number(vat_number)
    /\ pc' = "normalized"
    /\ UNCHANGED <<app, country_code, vat_number, recleaned_vat, chkVars, outVars, fmtVars>>
    /\ UNCHANGED srvVars

NormalizeAgain ==
    /\ pc = "normalized"
    /\ recleaned_vat' = clean_vat_number(cleaned_vat)
    /\ pc' = "renormalized"
    /\ UNCHANGED <<app, country_code, vat_number, cleaned_vat, chkVars, outVars, fmtVars>>
    /\ UNCHANGED srvVars

NormNext == Normalize \/ NormalizeAgain
SpecNorm == NormInit /\ [][NormNext]_vars

\* C4: the normaliser's result holds only characters of A-Z and 0-9, and
\* normalising the result again returns it unchanged.
C4_NormalizerCharsetIdempotent ==
    /\ pc \in {"normalized", "renormalized"} =>
           \A i \in 1..Len(cleaned_vat) : IsAZ09(cleaned_vat[i])
    /\ pc = "renormalized" => recleaned_vat = cleaned_vat

\* A mixed input (lower case, separator, sharp s) was normalised twice and
\* the result is not the input.
C4_Witness ==
    /\ pc = "renormalized"
    /\ vat_number = <<"a", "-", "U+00DF">>
    /\ cleaned_vat = <<"A", "S", "S">>
    /\ recleaned_vat = <<"A", "S", "S">>

-----------------------------------------------------------------------------
(* POST /check-vat: one request through the handler of src/index.py, and   *)
(* through the handler of src/main.py. The VIES service answers with a     *)
(* reply of up to MaxReplyParts fragments, or the call fails.              *)

MaxReplyParts == 2
HandlerParts == {X_ValidTrue, X_ValidFalseNs, X_ValidMaybe, X_NameAcme,
                 X_NameEmpty, X_AddressMain, X_Fault}
CauseTimeout ==
    <<"R","e","a","d"," ","t","i","m","e","d"," ","o","u","t",".">>
CauseRefused ==
    <<"C","o","n","n","e","c","t","i","o","n"," ","r","e","f","u","s","e",
      "d">>
CauseStatus ==
    <<"5","0","3"," ","S","e","r","v","e","r"," ","E","r","r","o","r">>
L_stamp ==
    <<"2","0","2","6","0","1","0","1","_","1","2","0","0","0","0">>

\* What requests.post followed by raise_for_status can end in.
Outcomes ==
    {[kind |-> "ok", text |-> Concat(ps)] : ps \in SeqUpTo(HandlerParts, MaxReplyParts)}
    \cup {[kind |-> "error", cause |-> c] : c \in {CauseTimeout, CauseRefused, CauseStatus}}

FormVatNumbers == VatNumbers \cup {<<"p","l"," ","1","2","3">>}

HandlerInit(apps) ==
    /\ pc = "received"
    /\ app \in apps
    /\ country_code \in CountryCodes
    /\ vat_number \in FormVatNumbers
    /\ cleaned_vat = <<>> /\ recleaned_vat = <<>>
    /\ ChkIdle /\ OutIdle /\ FmtIdle
    /\ SrvIdle

\* src/index.py lines 333-338 with ViesVatChecker.check_vat (88-118); an
\* exception that leaves check_vat reaches the handler's last except
\* clause (374-384).
CheckVat ==
    /\ pc = "received" /\ app = "index"
    /\ \E outcome \in Outcomes :
         LET result == check_vat(country_code, vat_number, outcome)
         IN  /\ upstream' = outcome
             /\ cleaned_vat' = clean_vat_number(vat_number)
             /\ xml_text' = IF outcome.kind = "ok" THEN outcome.text ELSE <<>>
             /\ last_request' = IF result.stored
                                THEN [set |-> TRUE, text |-> result.request]
                                ELSE last_request
             /\ last_response' = IF result.stored
                                 THEN [set |-> TRUE, text |-> outcome.text]
                                 ELSE last_response
             /\ IF result.raised
                THEN /\ response' = JsonResponse(500, [message |-> MsgUnexpected])
                     /\ pc' = "responded"
                     /\ UNCHANGED <<is_valid, message>>
                ELSE /\ is_valid' = result.is_valid
                     /\ message' = result.message
                     /\ pc' = "checked"
                     /\ UNCHANGED response
    /\ UNCHANGED <<app, country_code, vat_number, recleaned_vat,
                   company_name, filename, report, fmtVars>>
    /\ UNCHANGED srvVars

\* Lines 340-342: return JSONResponse(content={"message": message})
RespondInvalid ==
    /\ pc = "checked" /\ app = "index"
    /\ ~RendersReport(is_valid)
    /\ response' = JsonResponse(200, [message |-> message])
    /\ pc' = "responded"
    /\ UNCHANGED <<reqVars, chkVars, company_name, filename, report, fmtVars>>
    /\ UNCHANGED srvVars

\* Lines 344-347: the company name and the file name.
DeriveFilename ==
    /\ pc = "checked" /\ app = "index"
    /\ RendersReport(is_valid)
    /\ company_name' = extract_company_name(message)
    /\ filename' = create_filename(country_code, vat_number, company_name')
    /\ pc' = "named"
    /\ UNCHANGED <<reqVars, chkVars, response, report, fmtVars>>
    /\ UNCHANGED srvVars

\* Lines 349-372 with generate_pdf_report (120-161): the report reads
\* last_request and last_response; FPDF may fail on what it is given.
GeneratePdf ==
    /\ pc = "named" /\ app = "index"
    /\ \E rendered \in BOOLEAN :
         IF last_request.set /\ last_response.set /\ rendered
         THEN /\ report' = [state |-> "generated",
                            country |-> country_code,
                            vat |-> vat_number,
                            status |-> "Active",
                            details |-> SelectSeq(Split(message, "\n"),
                                                  LAMBDA l : Strip(l) /= <<>>),
                            request_xml |-> last_request.text,
                            response_xml |-> last_response.text]
              /\ response' = PdfResponse(report', filename)
         ELSE /\ report' = [state |-> "failed"]
              /\ response' = JsonResponse(500, [message |-> MsgPdfFailed])
    /\ pc' = "responded"
    /\ UNCHANGED <<reqVars, chkVars, company_name, filename, fmtVars>>
    /\ UNCHANGED srvVars

\* src/main.py line 62 with check_vat of src/vies_checker.py (13-46).
MainCheckVat ==
    /\ pc = "received" /\ app = "main"
    /\ \E outcome \in Outcomes :
         LET result == main_check_vat(outcome)
         IN  /\ upstream' = outcome
             /\ cleaned_vat' = clean_vat_number(vat_number)
             /\ xml_text' = IF outcome.kind = "ok" THEN outcome.text ELSE <<>>
             /\ is_valid' = result.is_valid
             /\ message' = result.message
    /\ pc' = "checked"
    /\ UNCHANGED <<app, country_code, vat_number, recleaned_vat,
                   last_request, last_response, outVars, fmtVars>>
    /\ UNCHANGED srvVars

\* src/main.py lines 63-76 with generate_pdf_report of src/vies_checker.py
\* (48-66): the report is written whatever is_valid is; any failure becomes
\* HTTPException(500).
MainGenerateReport ==
    /\ pc = "checked" /\ app = "main"
    /\ \E written \in BOOLEAN :
         IF written
         THEN /\ report' = [state |-> "generated",
                            country |-> country_code,
                            vat |-> vat_number,
                            status |-> IF is_valid THEN "Aktywny" ELSE "Nieaktywny",
                            details |-> <<message>>]
              /\ filename' = main_report_filename(country_code, vat_number, L_stamp)
              /\ response' = PdfResponse(report', filename')
         ELSE /\ report' = [state |-> "failed"]
              /\ filename' = filename
              /\ response' = JsonResponse(500, [detail |-> "error"])
    /\ pc' = "responded"
    /\ UNCHANGED <<reqVars, chkVars, company_name, fmtVars>>
    /\ UNCHANGED srvVars

Init == HandlerInit({"index"})
Next == CheckVat \/ RespondInvalid \/ DeriveFilename \/ GeneratePdf
Spec == Init /\ [][Next]_vars

VariantsInit == HandlerInit({"index", "main"})
VariantsNext ==
    \/ CheckVat \/ RespondInvalid \/ DeriveFilename \/ GeneratePdf
    \/ MainCheckVat \/ MainGenerateReport
SpecVariants == VariantsInit /\ [][VariantsNext]_vars

\* C1: a request whose check yields is_valid = false is answered with the
\* JSON body {"message": <status_message>} and no report is generated, in
\* the handler of src/index.py and in the handler of src/main.py.
C1_InvalidAnsweredWithMessageOnly ==
    (pc = "responded" /\ is_valid = FALSE) =>
        /\ response.media_type = "application/json"
        /\ response.content = [message |-> message]
        /\ report = NoReport

\* C2: when the outbound call fails at the transport level the response has
\* status 200 and the JSON body {"message": "API connection error: <cause>"},
\* and at no point status 500 (handler of src/index.py).
C2_TransportFailureAnswered200 ==
    upstream.kind = "error" =>
        /\ response.status /= 500
        /\ pc \in {"checked", "responded"}
        /\ is_valid = FALSE
        /\ pc = "responded" =>
               response = JsonResponse(200,
                              [message |-> MsgConnectionError \o upstream.cause])

\* The call timed out and the request was answered.
C2_Witness ==
    /\ pc = "responded"
    /\ upstream = [kind |-> "error", cause |-> CauseTimeout]
    /\ response.status = 200
    /\ response.content.message = MsgConnectionError \o CauseTimeout

\* C3: status 500 is answered only when the report could not be rendered
\* after a check that returned is_valid = true: the call had succeeded, the
\* reply was parsed, the file name derived (handler of src/index.py).
C3_Status500OnlyOnRenderFailure ==
    response.status = 500 =>
        /\ pc = "responded"
        /\ is_valid = TRUE
        /\ upstream.kind = "ok"
        /\ parse_vies_response(xml_text).is_valid
        /\ filename = create_filename(country_code, vat_number, company_name)
        /\ report = [state |-> "failed"]
        /\ response.content = [message |-> MsgPdfFailed]

\* A valid number whose report could not be rendered was answered with 500.
C3_Witness ==
    /\ pc = "responded"
    /\ response.status = 500
    /\ is_valid = TRUE
    /\ xml_text = X_ValidTrue \o X_NameAcme
    /\ report = [state |-> "failed"]

\* The <VAT> part of a file name VIES_<COUNTRY>_<VAT>_<NAME>.pdf: neither
\* the country part nor the name part can hold an underscore.
VatComponent(f) == Split(f, "_")[3]

\* C12: a request answered with a PDF carries a Content-Disposition file
\* name whose VAT part is the normalised VAT number that was sent to the
\* VIES service, clean_vat_number(vat_number), whatever was submitted.
C12_FilenameVatIsSentVat ==
    (pc = "responded" /\ response.media_type = "application/pdf") =>
        /\ cleaned_vat = clean_vat_number(vat_number)
        /\ VatComponent(response.filename) = cleaned_vat

-----------------------------------------------------------------------------
(* POST /check-vat served concurrently: up to MaxRequests requests run the *)
(* handler of src/index.py at the same time and their steps interleave in  *)
(* any order. Each step is one statement that reads or writes an attribute *)
(* of a ViesVatChecker object, with the local work that precedes it.       *)

MaxRequests == 2
Requests == 1..MaxRequests

\* The form fields of the requests: two forms whose envelopes differ.
ServeForms ==
    {[country_code |-> <<"P","L">>, vat_number |-> <<"1","2","3">>],
     [country_code |-> <<"D","E">>, vat_number |-> <<"a","b"," ","7">>]}

\* What the outbound call of a request can end in.
ServeOutcomes ==
    {[kind |-> "ok", text |-> X_ValidTrue \o X_NameAcme],
     [kind |-> "ok", text |-> X_ValidTrue \o X_AddressMain],
     [kind |-> "error", cause |-> CauseTimeout]}

\* One checker shared by every request.
NewChecker_shared(r) == 1

\* Line 333: checker = ViesVatChecker() makes an object of the request's own.
NewChecker(r) == r

\* Lines 18-19: __init__ assigns api_url only; the transcript attributes
\* do not exist yet.
NewInstance == [last_request |-> Unset, last_response |-> Unset]

ServeInit ==
    /\ pc = "serving"
    /\ ReqIdle /\ ChkIdle /\ OutIdle /\ FmtIdle
    /\ instances = [c \in Requests |-> NewInstance]
    /\ tasks \in [Requests ->
                    {[pc |-> "waiting", form |-> f, checker |-> 0,
                      soap_request |-> <<>>, response_text |-> <<>>,
                      is_valid |-> FALSE, message |-> <<>>, filename |-> <<>>,
                      request_xml |-> Unset, response_xml |-> Unset,
                      report |-> "none", response |-> NoResponse] :
                     f \in ServeForms}]

\* Lines 330-333: the request is accepted and its checker is made.
ServeAccept(r) ==
    /\ tasks[r].pc = "waiting"
    /\ instances' = [instances EXCEPT ![NewChecker(r)] = NewInstance]
    /\ tasks' = [tasks EXCEPT ![r].pc = "accepted",
                              ![r].checker = NewChecker(r)]
    /\ UNCHANGED <<pc, reqVars, chkVars, outVars, fmtVars>>

\* Lines 89-111 and, on a failed call, 116-118: the envelope is built and
\* posted.
ServePost(r) ==
    /\ tasks[r].pc = "accepted"
    /\ \E outcome \in ServeOutcomes :
         LET envelope == soap_request(tasks[r].form.country_code,
                                      clean_vat_number(tasks[r].form.vat_number))
         IN  IF outcome.kind = "error"
             THEN tasks' = [tasks EXCEPT
                              ![r].soap_request = envelope,
                              ![r].is_valid = FALSE,
                              ![r].message = MsgConnectionError \o outcome.cause,
                              ![r].pc = "checked"]
             ELSE tasks' = [tasks EXCEPT
                              ![r].soap_request = envelope,
                              ![r].response_text = outcome.text,
                              ![r].pc = "posted"]
    /\ UNCHANGED <<pc, reqVars, chkVars, outVars, fmtVars, instances>>

\* Line 112: self.last_request = soap_request
ServeStoreRequest(r) ==
    /\ tasks[r].pc = "posted"
    /\ instances' = [instances EXCEPT ![tasks[r].checker].last_request =
                         [set |-> TRUE, text |-> tasks[r].soap_request]]
    /\ tasks' = [tasks EXCEPT ![r].pc = "stored_request"]
    /\ UNCHANGED <<pc, reqVars, chkVars, outVars, fmtVars>>

\* Lines 113-114 and 337: self.last_response = response.text, then the
\* reply is parsed and the pair returned.
ServeStoreResponse(r) ==
    /\ tasks[r].pc = "stored_request"
    /\ instances' = [instances EXCEPT ![tasks[r].checker].last_response =
                         [set |-> TRUE, text |-> tasks[r].response_text]]
    /\ LET result == parse_vies_response(tasks[r].response_text)
       IN  tasks' = [tasks EXCEPT ![r].is_valid = result.is_valid,
                                  ![r].message = result.message,
                                  ![r].pc = "checked"]
    /\ UNCHANGED <<pc, reqVars, chkVars, outVars, fmtVars>>

\* Lines 340-342: return JSONResponse(content={"message": message})
ServeRespondInvalid(r) ==
    /\ tasks[r].pc = "checked"
    /\ ~RendersReport(tasks[r].is_valid)
    /\ tasks' = [tasks EXCEPT
                   ![r].response = JsonResponse(200, [message |-> tasks[r].message]),
                   ![r].pc = "responded"]
    /\ UNCHANGED <<pc, reqVars, chkVars, outVars, fmtVars, instances>>

\* Lines 344-351 and 120-148: the file name is derived, generate_pdf_report
\* starts and reads self.last_request; an attribute that was never assigned
\* raises AttributeError, answered by lines 352-362.
ServeReadRequest(r) ==
    /\ tasks[r].pc = "checked"
    /\ RendersReport(tasks[r].is_valid)
    /\ LET read == instances[tasks[r].checker].last_request
           name == create_filename(tasks[r].form.country_code,
                                   tasks[r].form.vat_number,
                                   extract_company_name(tasks[r].message))
       IN  IF read.set
           THEN tasks' = [tasks EXCEPT ![r].filename = name,
                                       ![r].request_xml = read,
                                       ![r].report = "started",
                                       ![r].pc = "read_request"]
           ELSE tasks' = [tasks EXCEPT
                            ![r].filename = name,
                            ![r].request_xml = read,
                            ![r].report = "failed",
                            ![r].response =
                                JsonResponse(500, [message |-> MsgPdfFailed]),
                            ![r].pc = "responded"]
    /\ UNCHANGED <<pc, reqVars, chkVars, outVars, fmtVars, instances>>

\* Lines 149-158 and 352-372: generate_pdf_report reads self.last_response
\* and returns the document, or FPDF fails on what it is given.
ServeReadResponse(r) ==
    /\ tasks[r].pc = "read_request"
    /\ \E rendered \in BOOLEAN :
         LET read == instances[tasks[r].checker].last_response
         IN  IF read.set /\ rendered
             THEN tasks' = [tasks EXCEPT
                              ![r].response_xml = read,
                              ![r].report = "generated",
                              ![r].response =
                                  PdfResponse([request_xml |-> tasks[r].request_xml.text,
                                               response_xml |-> read.text],
                                              tasks[r].filename),
                              ![r].pc = "responded"]
             ELSE tasks' = [tasks EXCEPT
                              ![r].response_xml = read,
                              ![r].report = "failed",
                              ![r].response =
                                  JsonResponse(500, [message |-> MsgPdfFailed]),
                              ![r].pc = "responded"]
    /\ UNCHANGED <<pc, reqVars, chkVars, outVars, fmtVars, instances>>

ServeNext ==
    \E r \in Requests :
        \/ ServeAccept(r) \/ ServePost(r)
        \/ ServeStoreRequest(r) \/ ServeStoreResponse(r)
        \/ ServeRespondInvalid(r)
        \/ ServeReadRequest(r) \/ ServeReadResponse(r)
SpecServe == ServeInit /\ [][ServeNext]_vars

\* C11: under any interleaving of concurrently served requests, when
\* generate_pdf_report runs for a request, the last_request and
\* last_response it reads have been set and are the envelope and the reply
\* body of that request's own outbound call.
C11_ReportReadsOwnTranscript ==
    \A r \in Requests :
        /\ tasks[r].report /= "none" =>
               tasks[r].request_xml =
                   [set |-> TRUE, text |-> tasks[r].soap_request]
        /\ tasks[r].pc = "responded" /\ tasks[r].report /= "none" =>
               tasks[r].response_xml =
                   [set |-> TRUE, text |-> tasks[r].response_text]

\* Request 1 has read its envelope for the report while request 2, which
\* sent a different envelope and got a different reply, is between its two
\* assignments to the checker's attributes.
C11_Witness ==
    /\ tasks[1].pc = "read_request"
    /\ tasks[2].pc = "stored_request"
    /\ tasks[1].soap_request /= tasks[2].soap_request
    /\ tasks[1].response_text /= tasks[2].response_text
    /\ tasks[1].request_xml.text = tasks[1].soap_request

====
